---- MODULE Spec2Model ----
(***************************************************************************)
(* Traceability audit runner (governance-framework/automation-runner/      *)
(* traceability/traceability.py): repository scan, per-item evaluation of  *)
(* the requirement catalog for a risk tier, cross-reference validation,    *)
(* score aggregation and report assembly.                                  *)
(*                                                                         *)
(* Text is modelled by TLA+ strings; `in`, lower(), Path.suffix and str()  *)
(* are computed character by character.  compliance_percentage is kept in  *)
(* hundredths of a percent (a float rounded to two decimals).              *)
(***************************************************************************)
EXTENDS Integers, Sequences, FiniteSets, TLC

VARIABLES
    repo_root,        \* parts of the audited root path (perform_audit argument)
    risk_level,       \* risk tier argument
    tree,             \* ids of the regular files under the root
    walk,             \* order in which Path.rglob enumerates the files
    pc,               \* position of the run
    candidates,       \* category -> list of classified files
    parsed_metadata,  \* list of [path, doc]
    parsed_logs,      \* list of [path, doc]
    audit_results,    \* the dictionary built by perform_audit
    evidence_dir,     \* names present in the evidence directory
    final_report,     \* the report built by main
    entry_point,      \* "main" for a process run, "perform_audit" for a direct call
    root_state,       \* what the root path names: "dir", "file" or "missing"
    fault,            \* the item whose structural check raises, or "none"
    run,              \* number of the run; the source of the report identifier
    dirs_created,     \* whether the output and evidence directories exist
    output_dir,       \* file name -> content of the output directory
    exit_status,      \* "running", or the exit status of the process
    saved_reports,    \* the reports written so far, one per successful save
    earlier           \* walk and returned summary of the earlier runs

invocation == <<entry_point, root_state, fault, run>>

outputs == <<dirs_created, output_dir, exit_status, saved_reports, earlier>>

vars == <<repo_root, risk_level, tree, walk, pc, candidates,
          parsed_metadata, parsed_logs, audit_results, evidence_dir, final_report,
          invocation, outputs>>

-----------------------------------------------------------------------------
(* Bounds *)

MaxFiles == 3
MaxDocs == 2
MaxRuns == 2
MaxRunFiles == 2
MaxMainFiles == 1

-----------------------------------------------------------------------------
(* Strings *)

\* str.lower() on one character
LowerChar(c) ==
    CASE c = "A" -> "a" [] c = "B" -> "b" [] c = "C" -> "c" [] c = "D" -> "d"
      [] c = "E" -> "e" [] c = "F" -> "f" [] c = "G" -> "g" [] c = "H" -> "h"
      [] c = "I" -> "i" [] c = "J" -> "j" [] c = "K" -> "k" [] c = "L" -> "l"
      [] c = "M" -> "m" [] c = "N" -> "n" [] c = "O" -> "o" [] c = "P" -> "p"
      [] c = "Q" -> "q" [] c = "R" -> "r" [] c = "S" -> "s" [] c = "T" -> "t"
      [] c = "U" -> "u" [] c = "V" -> "v" [] c = "W" -> "w" [] c = "X" -> "x"
      [] c = "Y" -> "y" [] c = "Z" -> "z" [] OTHER -> c

RECURSIVE lower(_)
lower(s) ==
    IF Len(s) = 0 THEN s
    ELSE LowerChar(SubSeq(s, 1, 1)) \o lower(SubSeq(s, 2, Len(s)))

\* Python `p in s` on strings
Contains(s, p) ==
    \E i \in 1..(Len(s) - Len(p) + 1) : SubSeq(s, i, i + Len(p) - 1) = p

\* Python s[:n]
Prefix(s, n) == SubSeq(s, 1, IF Len(s) < n THEN Len(s) ELSE n)

startswith(s, p) == Len(s) >= Len(p) /\ SubSeq(s, 1, Len(p)) = p

\* str.rfind("."), 1-based; 0 when there is no dot
RECURSIVE rfind_dot(_, _)
rfind_dot(s, i) ==
    IF i = 0 THEN 0
    ELSE IF SubSeq(s, i, i) = "." THEN i ELSE rfind_dot(s, i - 1)

\* pathlib's PurePath.suffix
suffix(name) ==
    LET i == rfind_dot(name, Len(name))
    IN  IF 1 < i /\ i < Len(name) THEN SubSeq(name, i, Len(name)) ELSE ""

Digit(n) == SubSeq("0123456789", n + 1, n + 1)

\* str() of a non-negative int
RECURSIVE IntStr(_)
IntStr(n) == IF n < 10 THEN Digit(n) ELSE IntStr(n \div 10) \o Digit(n % 10)

\* str() of a JSON scalar: a string, an int, or a float held in tenths
str(v) ==
    CASE v.t = "str" -> v.s
      [] v.t = "int" -> IntStr(v.n)
      [] v.t = "float" -> IntStr(v.n \div 10) \o "." \o IntStr(v.n % 10)

\* LET x == v IN Body(x), with v computed once
Bind(v, Body(_)) == CHOOSE r \in {Body(x) : x \in {v}} : TRUE

RECURSIVE SumSeq(_)
SumSeq(s) == IF Len(s) = 0 THEN 0 ELSE s[1] + SumSeq(Tail(s))

-----------------------------------------------------------------------------
(* Configuration tables *)

\* RISK_LEVELS with a low list that still names an item no longer required for low
RISK_LEVELS_Stale ==
    ("high" :> <<
         "dataset_versioning", "model_versioning", "decision_logs",
         "model_change_documentation", "hyperparameters_config", "audit_evidence",
         "performance_monitoring", "file_integrity_hash", "cross_reference",
         "dependency_documentation", "monitoring_events", "reproducibility_capability",
         "approvals_reviews", "regulatory_compliance", "design_decisions",
         "pipeline_auditability", "bias_metrics", "risk_mitigation",
         "inference_logs", "continuous_monitoring", "historical_reconstruction",
         "incident_documentation">>)
    @@ ("limited" :> <<
         "dataset_versioning", "model_versioning", "decision_logs",
         "hyperparameters_config", "file_integrity_hash", "cross_reference",
         "reproducibility_capability", "regulatory_compliance", "bias_metrics",
         "inference_logs">>)
    @@ ("low" :> <<
         "dataset_versioning", "model_versioning", "decision_logs",
         "hyperparameters_config", "file_integrity_hash", "reproducibility_capability">>)

\* RISK_LEVELS (traceability.py:33-51): the item list of each risk tier.
RISK_LEVELS ==
    ("high" :> <<
         "dataset_versioning", "model_versioning", "decision_logs",
         "model_change_documentation", "hyperparameters_config", "audit_evidence",
         "performance_monitoring", "file_integrity_hash", "cross_reference",
         "dependency_documentation", "monitoring_events", "reproducibility_capability",
         "approvals_reviews", "regulatory_compliance", "design_decisions",
         "pipeline_auditability", "bias_metrics", "risk_mitigation",
         "inference_logs", "continuous_monitoring", "historical_reconstruction",
         "incident_documentation">>)
    @@ ("limited" :> <<
         "dataset_versioning", "model_versioning", "decision_logs",
         "hyperparameters_config", "file_integrity_hash", "cross_reference",
         "reproducibility_capability", "regulatory_compliance", "bias_metrics",
         "inference_logs">>)
    @@ ("low" :> <<
         "dataset_versioning", "model_versioning", "hyperparameters_config",
         "file_integrity_hash", "reproducibility_capability">>)

\* Iteration order of the TRACEABILITY_ITEMS dictionary (traceability.py:73-382).
ItemOrder ==
    <<"dataset_versioning", "model_versioning", "decision_logs",
      "model_change_documentation", "hyperparameters_config", "audit_evidence",
      "performance_monitoring", "file_integrity_hash", "cross_reference",
      "dependency_documentation", "monitoring_events", "reproducibility_capability",
      "approvals_reviews", "regulatory_compliance", "design_decisions",
      "pipeline_auditability", "bias_metrics", "risk_mitigation",
      "inference_logs", "continuous_monitoring", "historical_reconstruction",
      "incident_documentation">>

\* TRACEABILITY_ITEMS (traceability.py:73-382): weight, keywords
\* and required_for of every requirement item.
TRACEABILITY_ITEMS ==
    ("dataset_versioning" :> [weight |-> 10,
        keywords |-> <<"dataset", "version", "hash", "provenance", "data lineage">>,
        required_for |-> {"high", "limited", "low"}])
    @@ ("model_versioning" :> [weight |-> 10,
        keywords |-> <<"model", "version", "checkpoint", "artifact", "serialization">>,
        required_for |-> {"high", "limited", "low"}])
    @@ ("decision_logs" :> [weight |-> 9,
        keywords |-> <<"decision", "prediction", "log", "timestamp", "inference">>,
        required_for |-> {"high", "limited"}])
    @@ ("model_change_documentation" :> [weight |-> 8,
        keywords |-> <<"change", "modification", "update", "migration", "changelog">>,
        required_for |-> {"high"}])
    @@ ("hyperparameters_config" :> [weight |-> 8,
        keywords |-> <<"hyperparameter", "config", "parameter", "setting", "training">>,
        required_for |-> {"high", "limited", "low"}])
    @@ ("audit_evidence" :> [weight |-> 9,
        keywords |-> <<"audit", "evidence", "approval", "review", "committee">>,
        required_for |-> {"high"}])
    @@ ("performance_monitoring" :> [weight |-> 7,
        keywords |-> <<"performance", "metric", "monitor", "dashboard", "accuracy">>,
        required_for |-> {"high"}])
    @@ ("file_integrity_hash" :> [weight |-> 8,
        keywords |-> <<"hash", "checksum", "integrity", "sha256", "md5">>,
        required_for |-> {"high", "limited", "low"}])
    @@ ("cross_reference" :> [weight |-> 9,
        keywords |-> <<"reference", "link", "correlate", "associate", "cross-reference">>,
        required_for |-> {"high", "limited"}])
    @@ ("dependency_documentation" :> [weight |-> 7,
        keywords |-> <<"dependency", "requirement", "environment", "library", "package">>,
        required_for |-> {"high"}])
    @@ ("monitoring_events" :> [weight |-> 7,
        keywords |-> <<"event", "alert", "notification", "incident", "monitoring">>,
        required_for |-> {"high"}])
    @@ ("reproducibility_capability" :> [weight |-> 10,
        keywords |-> <<"reproduce", "replicate", "recreate", "repeatable", "reproducibility">>,
        required_for |-> {"high", "limited", "low"}])
    @@ ("approvals_reviews" :> [weight |-> 8,
        keywords |-> <<"approval", "review", "signoff", "authorization", "peer review">>,
        required_for |-> {"high"}])
    @@ ("regulatory_compliance" :> [weight |-> 9,
        keywords |-> <<"compliance", "regulation", "standard", "requirement", "gdpr">>,
        required_for |-> {"high", "limited"}])
    @@ ("design_decisions" :> [weight |-> 7,
        keywords |-> <<"design", "decision", "architecture", "choice", "rationale">>,
        required_for |-> {"high"}])
    @@ ("pipeline_auditability" :> [weight |-> 8,
        keywords |-> <<"pipeline", "workflow", "process", "orchestration", "mlops">>,
        required_for |-> {"high"}])
    @@ ("bias_metrics" :> [weight |-> 8,
        keywords |-> <<"bias", "fairness", "equity", "discrimination", "fair">>,
        required_for |-> {"high", "limited"}])
    @@ ("risk_mitigation" :> [weight |-> 8,
        keywords |-> <<"risk", "mitigation", "control", "safeguard", "assessment">>,
        required_for |-> {"high"}])
    @@ ("inference_logs" :> [weight |-> 9,
        keywords |-> <<"inference", "prediction", "output", "result", "production">>,
        required_for |-> {"high", "limited"}])
    @@ ("continuous_monitoring" :> [weight |-> 7,
        keywords |-> <<"continuous", "monitoring", "ongoing", "real-time", "report">>,
        required_for |-> {"high"}])
    @@ ("historical_reconstruction" :> [weight |-> 9,
        keywords |-> <<"historical", "reconstruct", "restore", "timeline", "backup">>,
        required_for |-> {"high"}])
    @@ ("incident_documentation" :> [weight |-> 8,
        keywords |-> <<"incident", "issue", "problem", "corrective", "action">>,
        required_for |-> {"high"}])

\* FILE_PATTERNS (traceability.py:410-422), in dictionary order.
FILE_PATTERNS ==
    <<[category |-> "metadata_files",
       patterns |-> <<"metadata", "model_card", "about", "info">>],
      [category |-> "model_artifacts",
       patterns |-> <<".pt", ".pth", ".onnx", ".joblib", ".pkl", "model.", "checkpoint">>],
      [category |-> "dataset_files",
       patterns |-> <<"dataset", "data", "train", "test", "validation", ".csv", ".parquet", ".jsonl">>],
      [category |-> "decision_logs",
       patterns |-> <<"decision", "inference", "prediction", "log", "output">>],
      [category |-> "training_configs",
       patterns |-> <<"config", "hyperparameters", "train_config", "settings", "parameters">>],
      [category |-> "requirements_files",
       patterns |-> <<"requirements.txt", "pyproject.toml", "environment.yml", "pipfile", "setup.py">>],
      [category |-> "pipelines",
       patterns |-> <<"pipeline", "dag", "workflow", "orchestration", "mlflow">>],
      [category |-> "approvals",
       patterns |-> <<"approval", "committee", "signoff", "approved", "review", "audit">>],
      [category |-> "monitoring_reports",
       patterns |-> <<"monitor", "dashboard", "metrics", "report", "performance">>],
      [category |-> "documentation",
       patterns |-> <<".md", ".txt", "readme", "docs", "documentation">>],
      [category |-> "other_text",
       patterns |-> <<".json", ".yaml", ".yml", ".csv", ".txt", ".md">>]>>

\* IGNORED_DIRS (traceability.py:425-428).
IGNORED_DIRS ==
    {".git", "__pycache__", ".pytest_cache", "node_modules", ".mypy_cache",
     ".vscode", ".idea", "venv", "env", ".DS_Store",
     "dist", "build", ".eggs"}

-----------------------------------------------------------------------------
(* The file system under audit *)

\* hashlib.sha256(...).hexdigest(): an injective rendering of the content
Sha256Hex(content) == "sha256:" \o content

StrV(s) == [t |-> "str", s |-> s, n |-> 0]
IntV(n) == [t |-> "int", s |-> "", n |-> n]
FloatV(tenths) == [t |-> "float", s |-> "", n |-> tenths]

\* values returned by load_file
DictDoc(fields) == [kind |-> "dict", fields |-> fields, entries |-> <<>>]
ListDoc(entries) == [kind |-> "list", fields |-> <<>>, entries |-> entries]
TextDoc == [kind |-> "text", fields |-> <<>>, entries |-> <<>>]
ErrorDoc == [kind |-> "error", fields |-> <<>>, entries |-> <<>>]

HasKey(doc, k) == doc.kind = "dict" /\ k \in DOMAIN doc.fields

File(dirs, name, content, readable, doc, age) ==
    [dirs |-> dirs, name |-> name, content |-> content, readable |-> readable,
     doc |-> doc, mtime |-> 1700000000, age_days |-> age]

\* The files a tree is drawn from; doc is what load_file returns for content.
FS ==
    ("info" :> File(<<"metadata">>, "info.json", "{\"version\": \"1.0\"}", TRUE,
                    DictDoc("version" :> StrV("1.0")), 10))
    @@ ("pred1" :> File(<<"logs">>, "pred.json",
                    "{\"model_version\": \"1.0\", \"prediction\": 1}", TRUE,
                    DictDoc(("model_version" :> StrV("1.0")) @@ ("prediction" :> IntV(1))), 10))
    @@ ("pred2" :> File(<<"logs">>, "pred.json",
                    "{\"model_version\": \"2.0\", \"prediction\": 1}", TRUE,
                    DictDoc(("model_version" :> StrV("2.0")) @@ ("prediction" :> IntV(1))), 10))
    @@ ("reqs" :> File(<<>>, "requirements.txt", "numpy", TRUE, TextDoc, 10))
    @@ ("traincfg" :> File(<<>>, "train_config.yaml", "lr: 1", TRUE,
                    DictDoc("lr" :> IntV(1)), 10))
    @@ ("dataset" :> File(<<>>, "dataset.csv", "a,b", TRUE, ListDoc(<<>>), 10))
    @@ ("model" :> File(<<>>, "model.pkl", "x", TRUE, TextDoc, 10))
    @@ ("inflog" :> File(<<>>, "inference_log.json", "{\"model_version\": 2}", TRUE,
                    DictDoc("model_version" :> IntV(2)), 400))
    @@ ("settings" :> File(<<>>, "settings.ini", "seed=1", TRUE, TextDoc, 10))
    @@ ("reproduce" :> File(<<"docs">>, "Reproduce.MD", "See Link", TRUE, TextDoc, 10))
    @@ ("version" :> File(<<"src">>, "version.py", "v=1", TRUE, TextDoc, 10))
    @@ ("gitcfg" :> File(<<".git">>, "config", "[core]", TRUE, TextDoc, 10))
    @@ ("auditlog" :> File(<<>>, "audit.log", "", FALSE, ErrorDoc, 10))
    @@ ("card" :> File(<<>>, "model_card.json", "{\"dataset_hash\": \"sha256:a,b\"}", TRUE,
                    DictDoc("dataset_hash" :> StrV(Sha256Hex("a,b"))), 10))
    @@ ("dvc" :> File(<<>>, "data.csv.dvc", "outs:", TRUE, TextDoc, 10))
    @@ ("backup" :> File(<<>>, "backup.bin", "b", TRUE, TextDoc, 400))

FileIds == DOMAIN FS

\* The roots perform_audit is called with: Path(".") and a resolved absolute path
Roots == {<<>>, <<"/", "srv", "repo">>}

\* Sequence of the directory names and the file name below the root
RelParts(f) == FS[f].dirs \o <<FS[f].name>>

RECURSIVE JoinParts(_)
JoinParts(parts) ==
    IF Len(parts) = 0 THEN ""
    ELSE IF Len(parts) = 1 THEN parts[1]
    ELSE parts[1] \o "/" \o JoinParts(Tail(parts))

\* str(file_path.relative_to(repo_root))
RelPath(f) == JoinParts(RelParts(f))

\* str(file_path) for a path produced by root.rglob
PathStr(root, f) ==
    IF Len(root) = 0 THEN RelPath(f)
    ELSE IF root[1] = "/" THEN "/" \o JoinParts(Tail(root) \o RelParts(f))
    ELSE JoinParts(root \o RelParts(f))

\* The directory of the reproducibility scenario, and one whose configuration
\* file is classified as a training configuration
ScenarioTrees ==
    {{"reqs", "traincfg", "dataset", "model"}, {"reqs", "settings", "dataset", "model"}}

\* Trees: the scenario trees and every set of at most MaxFiles files with
\* pairwise distinct paths
Trees ==
    ScenarioTrees \cup
    {t \in SUBSET FileIds :
        /\ Cardinality(t) <= MaxFiles
        /\ \A a, b \in t : a # b => RelPath(a) # RelPath(b)}

\* A fixed enumeration of the files; Path.rglob lists a tree in this order
FileOrder ==
    <<"info", "pred1", "pred2", "reqs", "traincfg", "dataset", "model",
      "inflog", "settings", "reproduce", "version", "gitcfg", "auditlog", "card", "dvc", "backup">>

InTree(t, f) == f \in t

WalkOrders(t) == {SelectSeq(FileOrder, LAMBDA f : InTree(t, f))}

\* every order in which a directory walk can list the files of a tree
Enumerations(t) ==
    {w \in [1..Cardinality(t) -> t] : \A i, j \in DOMAIN w : i # j => w[i] # w[j]}

\* Path.resolve(): a relative path is taken from the working directory
cwd == <<"/", "srv", "repo">>

resolve(root) == IF Len(root) > 0 /\ root[1] = "/" THEN root ELSE cwd \o root

-----------------------------------------------------------------------------
(* Utility functions *)

\* sha256_of_file: the digest, or an error string for an unreadable file
sha256_of_file(f) ==
    IF FS[f].readable THEN Sha256Hex(FS[f].content) ELSE "error: permission denied"

max_bytes == 8192

\* safe_read_text: the decoded sample, or None (ok = FALSE) with an error
safe_read_text(f) ==
    IF FS[f].readable
    THEN [ok |-> TRUE,
          text |-> Prefix(FS[f].content, max_bytes)]
    ELSE [ok |-> FALSE, text |-> ""]

\* load_file
load_file(f) == FS[f].doc

-----------------------------------------------------------------------------
(* Scanner *)

Categories == {FILE_PATTERNS[i].category : i \in DOMAIN FILE_PATTERNS}

\* file_path.parents for a path of the given parts (an absolute path stops
\* at its anchor, a relative one at Path("."))
Parents(parts) ==
    LET lo == IF Len(parts) > 0 /\ parts[1] = "/" THEN 1 ELSE 0
    IN  {SubSeq(parts, 1, n) : n \in lo..(Len(parts) - 1)}

\* should_ignore_dir: relative_to raises for a directory that is not under
\* the root, and the handler answers True
should_ignore_dir(dir_path, root) ==
    IF Len(dir_path) >= Len(root) /\ SubSeq(dir_path, 1, Len(root)) = root
    THEN \E n \in (Len(root) + 1)..Len(dir_path) : dir_path[n] \in IGNORED_DIRS
    ELSE TRUE

Ignored(root, f) ==
    \E parent \in Parents(root \o RelParts(f)) : should_ignore_dir(parent, root)

PatternMatches(pattern, file_name, file_suffix) ==
    \/ startswith(pattern, ".") /\ file_suffix = pattern
    \/ ~startswith(pattern, ".") /\ Contains(file_name, pattern)

CategoryMatches(i, file_name, file_suffix) ==
    \E n \in DOMAIN FILE_PATTERNS[i].patterns :
        PatternMatches(FILE_PATTERNS[i].patterns[n], file_name, file_suffix)

\* the last matching category in place of the first
FirstCategory_Last(i, file_name, file_suffix) ==
    LET matching == {j \in i..Len(FILE_PATTERNS) : CategoryMatches(j, file_name, file_suffix)}
    IN  IF matching = {} THEN "none"
        ELSE FILE_PATTERNS[CHOOSE j \in matching : \A k \in matching : k <= j].category

\* the loop over FILE_PATTERNS.items(): the first category with a matching
\* pattern, "none" when the loop ends without a match
RECURSIVE FirstCategory(_, _, _)
FirstCategory(i, file_name, file_suffix) ==
    IF i > Len(FILE_PATTERNS) THEN "none"
    ELSE IF CategoryMatches(i, file_name, file_suffix) THEN FILE_PATTERNS[i].category
    ELSE FirstCategory(i + 1, file_name, file_suffix)

Classify(f) == FirstCategory(1, lower(FS[f].name), lower(suffix(FS[f].name)))

\* Classify and Ignored, tabulated over the files
ClassOf == [f \in FileIds |-> Classify(f)]

IgnoredIn == [root \in Roots |-> [f \in FileIds |-> Ignored(root, f)]]

\* root_path.exists() and root_path.is_dir(), on what the root path names
exists(state) == state # "missing"

\* every path taken for a directory
is_dir_Always(state) == TRUE

is_dir(state) == state = "dir"

\* only the first entry of the walk is looked at
scan_repository_FirstOnly(root, state, w) ==
    [c \in Categories |->
        SelectSeq(SubSeq(w, 1, IF Len(w) > 0 THEN 1 ELSE 0),
                  LAMBDA f : ~IgnoredIn[root][f] /\ ClassOf[f] = c)]

\* w is the enumeration root_path.rglob("*") yields
scan_repository(root, state, w) ==
    IF ~exists(state) \/ ~is_dir(state) THEN [c \in Categories |-> <<>>]
    ELSE [c \in Categories |->
            SelectSeq(w, LAMBDA f : ~IgnoredIn[root][f] /\ ClassOf[f] = c)]

\* the files in the order `for category, files in candidates.items()` visits them
RECURSIVE AllCandidates(_, _)
AllCandidates(cands, i) ==
    IF i > Len(FILE_PATTERNS) THEN <<>>
    ELSE cands[FILE_PATTERNS[i].category] \o AllCandidates(cands, i + 1)

-----------------------------------------------------------------------------
(* Audit logic *)

ItemKeys == DOMAIN TRACEABILITY_ITEMS

Put(fn, k, v) == [x \in (DOMAIN fn) \cup {k} |-> IF x = k THEN v ELSE fn[x]]

Narrative(msg, arg) == [msg |-> msg, arg |-> arg]

\* the name copy_evidence gives the copy: counter 0 is the plain name
dest_name(f, file_hash, counter) ==
    IF counter = 0
    THEN IntStr(FS[f].mtime) \o "_" \o Prefix(file_hash, 16) \o "__" \o FS[f].name
    ELSE IntStr(FS[f].mtime) \o "_" \o Prefix(file_hash, 16) \o "__"
            \o IntStr(counter) \o "__" \o FS[f].name

\* the plain name, taken or not
FreeName_Plain(f, file_hash, counter, dir) == dest_name(f, file_hash, counter)

\* the `while dest_path.exists()` loop: the first free name
RECURSIVE FreeName(_, _, _, _)
FreeName(f, file_hash, counter, dir) ==
    IF dest_name(f, file_hash, counter) \in DOMAIN dir
    THEN FreeName(f, file_hash, counter + 1, dir)
    ELSE dest_name(f, file_hash, counter)

\* the destination path returned although nothing was copied
copy_evidence_Reported(f, dir, raising) ==
    LET h == sha256_of_file(f)
        file_hash == IF startswith(h, "error") THEN "unknown" ELSE h
        name == FreeName(f, file_hash, 0, dir)
    IN  IF FS[f].readable /\ raising # "copy_evidence"
        THEN [result |-> "evidence/" \o name, dir |-> Put(dir, name, FS[f].content)]
        ELSE [result |-> "evidence/" \o name, dir |-> dir]

\* copy_evidence: the returned string and the evidence directory afterwards;
\* shutil.copy2 raises for an unreadable source, or for any source when
\* `raising` names copy_evidence (no space left in the archive), and the
\* handler returns "error: ..."
copy_evidence(f, dir, raising) ==
    LET h == sha256_of_file(f)
        file_hash == IF startswith(h, "error") THEN "unknown" ELSE h
        name == FreeName(f, file_hash, 0, dir)
    IN  IF ~FS[f].readable THEN [result |-> "error: permission denied", dir |-> dir]
        ELSE IF raising = "copy_evidence"
        THEN [result |-> "error: no space left on device", dir |-> dir]
        ELSE [result |-> "evidence/" \o name, dir |-> Put(dir, name, FS[f].content)]

\* validate_retention_policies on one entry of root.rglob("*")
retention_days == 365

RetentionTerms == <<"log", "audit", "backup", "trace">>

RetentionIssue(root, f) ==
    IF /\ \E n \in DOMAIN RetentionTerms : Contains(lower(FS[f].name), RetentionTerms[n])
       /\ FS[f].age_days > retention_days
    THEN <<[kind |-> "old_file", path |-> PathStr(root, f)]>>
    ELSE <<>>

RetentionOf == [root \in Roots |-> [f \in FileIds |-> RetentionIssue(root, f)]]

RECURSIVE validate_retention_policies(_, _)
validate_retention_policies(root, file_paths) ==
    IF Len(file_paths) = 0 THEN <<>>
    ELSE RetentionOf[root][Head(file_paths)]
            \o validate_retention_policies(root, Tail(file_paths))

\* perform_audit, lines 656-660: the retention issues, or the one entry the
\* handler stores when the retention check raises
RetentionFailure == <<[kind |-> "error", path |-> ""]>>

RetentionOutcome(root, file_paths, raising) ==
    IF raising = "retention_check" THEN RetentionFailure
    ELSE validate_retention_policies(root, file_paths)

\* the set of model versions declared by the metadata documents
ModelVersions(metadata_files) ==
    {str(metadata_files[i].doc.fields["version"]) :
        i \in {j \in DOMAIN metadata_files : HasKey(metadata_files[j].doc, "version")}}

UnknownVersionIssue(path, log_version) ==
    [log |-> FS[path].name, version |-> log_version]

\* the loop over a list-shaped log: stops at the first unknown version
RECURSIVE ListIssues(_, _, _)
ListIssues(path, entries, model_versions) ==
    IF Len(entries) = 0 THEN <<>>
    ELSE IF /\ HasKey(Head(entries), "model_version")
            /\ str(Head(entries).fields["model_version"]) \notin model_versions
         THEN <<UnknownVersionIssue(path, str(Head(entries).fields["model_version"]))>>
         ELSE ListIssues(path, Tail(entries), model_versions)

\* LogIssues comparing the raw model_version, without str()
LogIssues_NoStr(entry, model_versions) ==
    IF HasKey(entry.doc, "model_version")
    THEN IF ~(/\ entry.doc.fields["model_version"].t = "str"
              /\ entry.doc.fields["model_version"].s \in model_versions)
         THEN <<UnknownVersionIssue(entry.path, str(entry.doc.fields["model_version"]))>>
         ELSE <<>>
    ELSE IF entry.doc.kind = "list"
         THEN ListIssues(entry.path, entry.doc.entries, model_versions)
         ELSE <<>>

LogIssues(entry, model_versions) ==
    IF HasKey(entry.doc, "model_version")
    THEN IF str(entry.doc.fields["model_version"]) \notin model_versions
         THEN <<UnknownVersionIssue(entry.path, str(entry.doc.fields["model_version"]))>>
         ELSE <<>>
    ELSE IF entry.doc.kind = "list"
         THEN ListIssues(entry.path, entry.doc.entries, model_versions)
         ELSE <<>>

RECURSIVE CollectIssues(_, _)
CollectIssues(log_files, model_versions) ==
    IF Len(log_files) = 0 THEN <<>>
    ELSE LogIssues(Head(log_files), model_versions)
            \o CollectIssues(Tail(log_files), model_versions)

check_cross_references(metadata_files, log_files) ==
    CollectIssues(log_files, ModelVersions(metadata_files))

\* RISK_LEVELS.get(risk_level, [])
\* the list of `high` handed out for `low`
RequiredItems_LowAsHigh(rl) ==
    IF rl = "low" THEN RISK_LEVELS["high"]
    ELSE IF rl \in DOMAIN RISK_LEVELS THEN RISK_LEVELS[rl] ELSE <<>>

RequiredItems(rl) == IF rl \in DOMAIN RISK_LEVELS THEN RISK_LEVELS[rl] ELSE <<>>

\* the number of required items taken for the maximum
MaxScore_Count(required_items) == Len(required_items)

MaxScore(required_items) ==
    SumSeq([i \in DOMAIN required_items |-> TRACEABILITY_ITEMS[required_items[i]].weight])

CountFiles(cands) ==
    SumSeq([i \in DOMAIN FILE_PATTERNS |-> Len(cands[FILE_PATTERNS[i].category])])

NoResults ==
    [summary |-> [total_score |-> 0, max_score |-> 0, scanned_files |-> 0,
                  risk_level |-> "", required_items_count |-> 0],
     details |-> <<>>, evidence_index |-> <<>>, cross_reference_issues |-> <<>>,
     retention_issues |-> <<>>, scanned_categories |-> <<>>]

\* the dictionary perform_audit starts from
InitialResults(cands, rl) ==
    [summary |-> [total_score |-> 0,
                  max_score |-> MaxScore(RequiredItems(rl)),
                  scanned_files |-> CountFiles(cands),
                  risk_level |-> rl,
                  required_items_count |-> Len(RequiredItems(rl))],
     details |-> <<>>, evidence_index |-> <<>>, cross_reference_issues |-> <<>>,
     retention_issues |-> <<>>,
     scanned_categories |-> [c \in Categories |-> Len(cands[c])]]

\* every item taken as required, whatever the tier
IsRequiredForRisk_Always(item_key, rl) == TRUE

IsRequiredForRisk(item_key, rl) == rl \in TRACEABILITY_ITEMS[item_key].required_for

NewItemResult(item_key, rl) ==
    [weight |-> TRACEABILITY_ITEMS[item_key].weight, score |-> 0, checks |-> <<>>,
     evidence |-> <<>>, status |-> "not_found",
     is_required_for_risk |-> IsRequiredForRisk(item_key, rl)]

InSeq(s, x) == \E i \in DOMAIN s : s[i] = x

\* register_item_evidence on the evaluation state st = [res, dir, found, raising]
register_item_evidence(st, item_key, f, rl) ==
    LET rel_path == RelPath(f)
        new_copy == rel_path \notin DOMAIN st.res.evidence_index
        copied == copy_evidence(f, st.dir, st.raising)
    IN  [st EXCEPT
            !.res.details = IF item_key \in DOMAIN @ THEN @
                            ELSE Put(@, item_key, NewItemResult(item_key, rl)),
            !.res.evidence_index =
                IF new_copy /\ ~startswith(copied.result, "error")
                THEN Put(@, rel_path, copied.result) ELSE @,
            !.res.details[item_key].evidence =
                IF InSeq(@, rel_path) THEN @ ELSE Append(@, rel_path),
            !.dir = IF new_copy THEN copied.dir ELSE @]

RECURSIVE RegisterAll(_, _, _, _)
RegisterAll(st, item_key, files, rl) ==
    IF Len(files) = 0 THEN st
    ELSE Bind(register_item_evidence(st, item_key, Head(files), rl),
              LAMBDA next : RegisterAll(next, item_key, Tail(files), rl))

AppendCheck(st, item_key, narrative) ==
    [st EXCEPT !.res.details[item_key].checks = Append(@, narrative)]

\* KeywordMatch looking at the sample only, not at the file name
KeywordMatch_ContentOnly(item_key, content, file_name) ==
    \E n \in DOMAIN TRACEABILITY_ITEMS[item_key].keywords :
        Contains(lower(content), lower(TRACEABILITY_ITEMS[item_key].keywords[n]))

\* the keyword test of one item on one file's sample and name
KeywordMatch(item_key, content, file_name) ==
    \E n \in DOMAIN TRACEABILITY_ITEMS[item_key].keywords :
        LET kw == lower(TRACEABILITY_ITEMS[item_key].keywords[n])
        IN  Contains(lower(content), kw) \/ Contains(lower(file_name), kw)

\* KeywordMatch on the files whose sample could be read, tabulated
KeywordEvidence ==
    [item_key \in ItemKeys |-> [f \in FileIds |->
        /\ safe_read_text(f).ok
        /\ KeywordMatch(item_key, safe_read_text(f).text, FS[f].name)]]

\* the generic loop over every classified file
RECURSIVE KeywordScan(_, _, _, _)
KeywordScan(st, item_key, files, rl) ==
    IF Len(files) = 0 THEN st
    ELSE IF KeywordEvidence[item_key][Head(files)]
    THEN Bind([register_item_evidence(
                   AppendCheck(st, item_key,
                               Narrative("keyword_match", FS[Head(files)].name)),
                   item_key, Head(files), rl) EXCEPT !.found = TRUE],
              LAMBDA next : KeywordScan(next, item_key, Tail(files), rl))
    ELSE KeywordScan(st, item_key, Tail(files), rl)

\* `value == actual_hash` for a JSON value and a digest string
EqualsHash(v, actual_hash) == v.t = "str" /\ v.s = actual_hash

\* [m["dataset_hash"] for metadata dictionaries that have the key]
DatasetHashes(pm) ==
    {pm[i].doc.fields["dataset_hash"] :
        i \in {j \in DOMAIN pm : HasKey(pm[j].doc, "dataset_hash")}}

DvcInPath == [root \in Roots |-> [f \in FileIds |-> Contains(PathStr(root, f), ".dvc")]]

\* dataset_versioning: re-hash the dataset files against the recorded hashes
RECURSIVE ValidateDatasetHashes(_, _, _, _, _)
ValidateDatasetHashes(st, item_key, files, dataset_hashes, rl) ==
    IF Len(files) = 0 THEN st
    ELSE IF \E h \in dataset_hashes : EqualsHash(h, sha256_of_file(Head(files)))
    THEN Bind(register_item_evidence(
                  AppendCheck(st, item_key,
                              Narrative("dataset_hash_validated", FS[Head(files)].name)),
                  item_key, Head(files), rl),
              LAMBDA next :
                  ValidateDatasetHashes(next, item_key, Tail(files), dataset_hashes, rl))
    ELSE ValidateDatasetHashes(st, item_key, Tail(files), dataset_hashes, rl)

\* m.get(key) == actual_hash for some parsed metadata dictionary
\* the field is present, whatever its value
RecordedHash_AnyValue(pm, key, actual_hash) ==
    \E i \in DOMAIN pm : HasKey(pm[i].doc, key)

RecordedHash(pm, key, actual_hash) ==
    \E i \in DOMAIN pm :
        HasKey(pm[i].doc, key) /\ EqualsHash(pm[i].doc.fields[key], actual_hash)

\* file_integrity_hash: the loop over dataset files and model artifacts
RECURSIVE ConfirmIntegrity(_, _, _, _, _)
ConfirmIntegrity(st, item_key, files, pm, rl) ==
    IF Len(files) = 0 THEN st
    ELSE IF \/ RecordedHash(pm, "dataset_hash", sha256_of_file(Head(files)))
            \/ RecordedHash(pm, "model_hash", sha256_of_file(Head(files)))
    THEN Bind([register_item_evidence(
                   AppendCheck(st, item_key,
                               Narrative("file_integrity_confirmed", FS[Head(files)].name)),
                   item_key, Head(files), rl) EXCEPT !.found = TRUE],
              LAMBDA next : ConfirmIntegrity(next, item_key, Tail(files), pm, rl))
    ELSE ConfirmIntegrity(st, item_key, Tail(files), pm, rl)

\* the component test without the dataset category
ReproducibilityComponents_NoDataset(cands) ==
    /\ Len(cands["training_configs"]) > 0
    /\ Len(cands["requirements_files"]) > 0
    /\ Len(cands["model_artifacts"]) > 0

\* all(required_components_found)
ReproducibilityComponentsFound(cands) ==
    /\ Len(cands["training_configs"]) > 0
    /\ Len(cands["requirements_files"]) > 0
    /\ Len(cands["dataset_files"]) > 0
    /\ Len(cands["model_artifacts"]) > 0

\* the cross-reference item awarded without looking at the issues
CrossReferences_Unchecked(issues) == TRUE

\* `not audit_results["cross_reference_issues"]`
CrossReferencesConsistent(issues) == Len(issues) = 0

Paths(parsed) == [i \in DOMAIN parsed |-> parsed[i].path]

\* the item-specific structural checks
SpecificValidation(st, item_key, root, cands, pm, pl, rl) ==
    CASE item_key = "dataset_versioning" ->
            IF \/ DatasetHashes(pm) # {}
               \/ \E i \in DOMAIN cands["other_text"] : DvcInPath[root][cands["other_text"][i]]
            THEN ValidateDatasetHashes(
                     [AppendCheck(st, item_key, Narrative("dataset_versioning_artifacts", ""))
                        EXCEPT !.found = TRUE],
                     item_key, cands["dataset_files"], DatasetHashes(pm), rl)
            ELSE st
      [] item_key = "model_versioning" ->
            IF \/ Len(cands["model_artifacts"]) > 0
               \/ \E i \in DOMAIN pm : HasKey(pm[i].doc, "version")
            THEN RegisterAll(
                     [AppendCheck(st, item_key, Narrative("model_versioning_artifacts", ""))
                        EXCEPT !.found = TRUE],
                     item_key, cands["model_artifacts"], rl)
            ELSE st
      [] item_key = "reproducibility_capability" ->
            IF ReproducibilityComponentsFound(cands)
            THEN RegisterAll(
                     [AppendCheck(st, item_key, Narrative("reproducibility_components", ""))
                        EXCEPT !.found = TRUE],
                     item_key,
                     cands["training_configs"] \o cands["requirements_files"]
                        \o cands["dataset_files"] \o cands["model_artifacts"], rl)
            ELSE st
      [] item_key = "cross_reference" ->
            IF CrossReferencesConsistent(st.res.cross_reference_issues)
            THEN RegisterAll(
                     [AppendCheck(st, item_key, Narrative("cross_references_consistent", ""))
                        EXCEPT !.found = TRUE],
                     item_key, Paths(pl) \o Paths(pm), rl)
            ELSE st
      [] item_key = "file_integrity_hash" ->
            ConfirmIntegrity(st, item_key,
                             cands["dataset_files"] \o cands["model_artifacts"], pm, rl)
      [] OTHER -> st

\* lines 734-784: the try around the structural check; when the check of
\* `raising` raises, the handler appends the error to the item's narratives
TrySpecificValidation(st, item_key, root, cands, pm, pl, rl, raising) ==
    IF item_key = raising
    THEN AppendCheck(st, item_key, Narrative("specific_validation_error", ""))
    ELSE SpecificValidation(st, item_key, root, cands, pm, pl, rl)

\* the weight awarded whether evidence was found or not
AwardScore_Always(found_evidence, weight) == [score |-> weight, status |-> "found"]

\* the score and status an item ends with
AwardScore(found_evidence, weight) ==
    IF found_evidence THEN [score |-> weight, status |-> "found"]
    ELSE [score |-> 0, status |-> "not_found"]

\* `=` in place of `+=`
AddToTotal_Overwrite(total_score, score) == score

AddToTotal(total_score, score) == total_score + score

\* an item scores only when the retention check reported nothing
Conclude_RetentionBlocks(st, item_key) ==
    LET award == AwardScore(st.found /\ Len(st.res.retention_issues) = 0,
                            TRACEABILITY_ITEMS[item_key].weight)
    IN  [res |-> [st.res EXCEPT
                    !.details[item_key].score = award.score,
                    !.details[item_key].status = award.status,
                    !.summary.total_score = AddToTotal(@, award.score)],
         dir |-> st.dir]

\* lines 785-792: status, score and total of an evaluated item
Conclude(st, item_key) ==
    LET award == AwardScore(st.found, TRACEABILITY_ITEMS[item_key].weight)
    IN  [res |-> [st.res EXCEPT
                    !.details[item_key].checks =
                        IF st.found THEN @ ELSE Append(@, Narrative("no_evidence", "")),
                    !.details[item_key].score = award.score,
                    !.details[item_key].status = award.status,
                    !.summary.total_score = AddToTotal(@, award.score)],
         dir |-> st.dir]

\* one iteration of the loop over TRACEABILITY_ITEMS.items(), on out = [res, dir]
EvaluateOne(out, item_key, root, cands, pm, pl, rl, raising) ==
    Bind([out EXCEPT !.res.details =
                        IF item_key \in DOMAIN @ THEN @
                        ELSE Put(@, item_key, NewItemResult(item_key, rl))],
         LAMBDA o :
            IF ~o.res.details[item_key].is_required_for_risk
            THEN [o EXCEPT !.res.details[item_key].status = "optional"]
            ELSE Bind(KeywordScan([res |-> o.res, dir |-> o.dir, found |-> FALSE,
                                   raising |-> raising],
                                  item_key, AllCandidates(cands, 1), rl),
                      LAMBDA scanned :
                         Bind(TrySpecificValidation(scanned, item_key, root, cands,
                                                    pm, pl, rl, raising),
                              LAMBDA validated : Conclude(validated, item_key))))

\* the loop over TRACEABILITY_ITEMS.items(), from position i on
RECURSIVE EvaluateAll(_, _, _, _, _, _, _, _)
EvaluateAll(out, i, root, cands, pm, pl, rl, raising) ==
    IF i > Len(ItemOrder) THEN out
    ELSE Bind(EvaluateOne(out, ItemOrder[i], root, cands, pm, pl, rl, raising),
              LAMBDA next : EvaluateAll(next, i + 1, root, cands, pm, pl, rl, raising))

-----------------------------------------------------------------------------
(* Report *)

\* truncation to two decimals in place of rounding
round_percentage_Truncated(total_score, max_score) ==
    (total_score * 10000) \div max_score

\* round(total_score / max_score * 100, 2) in hundredths, ties to even
round_percentage(total_score, max_score) ==
    LET q == (total_score * 10000) \div max_score
        r == (total_score * 10000) % max_score
    IN  IF 2 * r < max_score THEN q
        ELSE IF 2 * r > max_score THEN q + 1
        ELSE IF q % 2 = 0 THEN q ELSE q + 1

compliance_percentage(total_score, max_score) ==
    IF max_score > 0 THEN round_percentage(total_score, max_score) ELSE 0

NoReport ==
    [audit_id |-> 0,
     audit_run |-> [environment_info |-> "", risk_level |-> ""],
     summary |-> [total_score |-> 0, max_score |-> 0, compliance_percentage |-> 0,
                  scanned_files |-> 0, risk_level |-> "", required_items_count |-> 0],
     details |-> <<>>, evidence_index |-> <<>>,
     issues |-> [retention |-> <<>>, cross_reference |-> <<>>],
     scanned_categories |-> <<>>]

\* uuid is the token uuid.uuid4() returns: a fresh one in every run
generate_multilingual_report(res, uuid) ==
    [audit_id |-> uuid,
     audit_run |-> [environment_info |-> "Python 3", risk_level |-> res.summary.risk_level],
     summary |-> [total_score |-> res.summary.total_score,
                  max_score |-> res.summary.max_score,
                  compliance_percentage |->
                      compliance_percentage(res.summary.total_score, res.summary.max_score),
                  scanned_files |-> res.summary.scanned_files,
                  risk_level |-> res.summary.risk_level,
                  required_items_count |-> res.summary.required_items_count],
     details |-> [k \in DOMAIN res.details |->
                    [en |-> res.details[k], pt |-> res.details[k], es |-> res.details[k]]],
     evidence_index |-> res.evidence_index,
     issues |-> [retention |-> res.retention_issues,
                 cross_reference |-> res.cross_reference_issues],
     scanned_categories |-> res.scanned_categories]

\* the audit_results main substitutes when perform_audit raises
FallbackResults(rl) ==
    [summary |-> [total_score |-> 0, max_score |-> 0, scanned_files |-> 0,
                  risk_level |-> rl, required_items_count |-> 0],
     details |-> <<>>, evidence_index |-> <<>>,
     cross_reference_issues |-> <<[log |-> "CRITICAL: Audit failed", version |-> ""]>>,
     retention_issues |-> <<>>, scanned_categories |-> <<>>]

\* the report main substitutes when generate_multilingual_report raises
FallbackReport(rl, uuid) ==
    [audit_id |-> uuid,
     audit_run |-> [environment_info |-> "Python fallback", risk_level |-> rl],
     summary |-> [total_score |-> 0, max_score |-> 0, compliance_percentage |-> 0,
                  scanned_files |-> 0, risk_level |-> rl, required_items_count |-> 0],
     details |-> <<>>, evidence_index |-> <<>>,
     issues |-> [retention |-> <<>>,
                 cross_reference |-> <<[log |-> "REPORT GENERATION FAILED", version |-> ""]>>],
     scanned_categories |-> <<>>]

-----------------------------------------------------------------------------
(* The run *)

RiskLevels == {"high", "limited", "low", "minimal"}

Init ==
    /\ repo_root \in Roots
    /\ risk_level \in RiskLevels
    /\ tree \in Trees
    /\ walk \in WalkOrders(tree)
    /\ pc = "start"
    /\ candidates = [c \in Categories |-> <<>>]
    /\ parsed_metadata = <<>>
    /\ parsed_logs = <<>>
    /\ audit_results = NoResults
    /\ evidence_dir = <<>>
    /\ final_report = NoReport
    /\ entry_point = "perform_audit"
    /\ root_state = "dir"
    /\ fault = "none"
    /\ run = 1
    /\ dirs_created = TRUE
    /\ output_dir = <<>>
    /\ exit_status = "running"
    /\ saved_reports = <<>>
    /\ earlier = <<>>

\* perform_audit, lines 626-641: scan and initial dictionary
Scan ==
    /\ pc = "start"
    /\ candidates' = scan_repository(repo_root, root_state, walk)
    /\ audit_results' = InitialResults(candidates', risk_level)
    /\ pc' = "scanned"
    /\ UNCHANGED <<repo_root, risk_level, tree, walk, parsed_metadata,
                   parsed_logs, evidence_dir, final_report,
                   invocation, outputs>>

\* perform_audit, lines 643-660: load metadata and logs, retention check
Load ==
    /\ pc = "scanned"
    /\ parsed_metadata' = [i \in DOMAIN candidates["metadata_files"] |->
            [path |-> candidates["metadata_files"][i],
             doc |-> load_file(candidates["metadata_files"][i])]]
    /\ parsed_logs' = [i \in DOMAIN candidates["decision_logs"] |->
            [path |-> candidates["decision_logs"][i],
             doc |-> load_file(candidates["decision_logs"][i])]]
    /\ audit_results' = [audit_results EXCEPT
            !.retention_issues = RetentionOutcome(repo_root, walk, fault)]
    /\ pc' = "loaded"
    /\ UNCHANGED <<repo_root, risk_level, tree, walk, candidates,
                   evidence_dir, final_report,
                   invocation, outputs>>

\* perform_audit, lines 662-666
CheckCrossReferences ==
    /\ pc = "loaded"
    /\ audit_results' = [audit_results EXCEPT
            !.cross_reference_issues = check_cross_references(parsed_metadata, parsed_logs)]
    /\ pc' = "cross_checked"
    /\ UNCHANGED <<repo_root, risk_level, tree, walk, candidates,
                   parsed_metadata, parsed_logs, evidence_dir, final_report,
                   invocation, outputs>>

\* perform_audit, lines 693-806: the loop over the catalog, and the return
EvaluateItems ==
    /\ pc = "cross_checked"
    /\ \E out \in {EvaluateAll([res |-> audit_results, dir |-> evidence_dir], 1, repo_root,
                                candidates, parsed_metadata, parsed_logs, risk_level,
                                fault)} :
          /\ audit_results' = out.res
          /\ evidence_dir' = out.dir
    /\ pc' = "audited"
    /\ UNCHANGED <<repo_root, risk_level, tree, walk, candidates, parsed_metadata,
                   parsed_logs, final_report,
                   invocation, outputs>>

\* main, lines 972-981: perform_audit raised
PerformAuditRaises ==
    /\ pc = "start"
    /\ audit_results' = FallbackResults(risk_level)
    /\ pc' = "audit_failed"
    /\ UNCHANGED <<repo_root, risk_level, tree, walk, candidates,
                   parsed_metadata, parsed_logs, evidence_dir, final_report,
                   invocation, outputs>>

\* main, lines 986-987
GenerateReport ==
    /\ pc \in {"audited", "audit_failed"}
    /\ final_report' = generate_multilingual_report(audit_results, run)
    /\ pc' = "reported"
    /\ UNCHANGED <<repo_root, risk_level, tree, walk, candidates,
                   parsed_metadata, parsed_logs, audit_results, evidence_dir,
                   invocation, outputs>>

\* main, lines 988-1005: generate_multilingual_report raised
GenerateReportRaises ==
    /\ pc \in {"audited", "audit_failed"}
    /\ final_report' = FallbackReport(risk_level, run)
    /\ pc' = "reported"
    /\ UNCHANGED <<repo_root, risk_level, tree, walk, candidates,
                   parsed_metadata, parsed_logs, audit_results, evidence_dir,
                   invocation, outputs>>

Next ==
    \/ Scan
    \/ Load
    \/ CheckCrossReferences
    \/ EvaluateItems
    \/ PerformAuditRaises
    \/ GenerateReport
    \/ GenerateReportRaises

Spec == Init /\ [][Next]_vars

-----------------------------------------------------------------------------
(* check_cross_references on its own: the documents are drawn from bounded sets *)

MetadataDocs ==
    {DictDoc("version" :> StrV("1.0")),
     DictDoc("version" :> FloatV(10)),
     DictDoc("version" :> IntV(2)),
     DictDoc("creation_date" :> StrV("2024-01-01")),
     ListDoc(<<DictDoc("version" :> StrV("3.0"))>>)}

LogDocs ==
    {DictDoc("model_version" :> StrV("1.0")),
     DictDoc("model_version" :> FloatV(10)),
     DictDoc("model_version" :> IntV(2)),
     DictDoc("model_version" :> StrV("3.0")),
     DictDoc("prediction" :> IntV(1)),
     ListDoc(<<DictDoc("model_version" :> StrV("3.0")),
               DictDoc("model_version" :> IntV(1))>>)}

\* the paths of the documents, by position (file names pairwise distinct)
MetadataPaths == <<"info", "card", "settings", "reqs">>
LogPaths == <<"inflog", "pred1", "dataset", "model">>

DocLists(paths, docs) ==
    UNION {{[i \in 1..n |-> [path |-> paths[i], doc |-> d[i]]] : d \in [1..n -> docs]} :
              n \in 0..MaxDocs}

InitXref ==
    /\ repo_root = <<>>
    /\ risk_level = "high"
    /\ tree = {}
    /\ walk = <<>>
    /\ pc = "loaded"
    /\ candidates = [c \in Categories |-> <<>>]
    /\ parsed_metadata \in DocLists(MetadataPaths, MetadataDocs)
    /\ parsed_logs \in DocLists(LogPaths, LogDocs)
    /\ audit_results = InitialResults(candidates, risk_level)
    /\ evidence_dir = <<>>
    /\ final_report = NoReport
    /\ entry_point = "perform_audit"
    /\ root_state = "dir"
    /\ fault = "none"
    /\ run = 1
    /\ dirs_created = TRUE
    /\ output_dir = <<>>
    /\ exit_status = "running"
    /\ saved_reports = <<>>
    /\ earlier = <<>>

NextXref == CheckCrossReferences

SpecXref == InitXref /\ [][NextXref]_vars

-----------------------------------------------------------------------------
(* The process: main around perform_audit, and repeated runs *)

report_name == "rastreabilidade_json"

hash_name == "audit_hash.txt"

\* hashlib.sha256 of the serialized report
ReportDigest(report) == [sha256_of |-> report]

\* main, lines 937-954: the tier and the root are checked, sys.exit(1) otherwise
StartMain ==
    /\ pc = "main"
    /\ IF \/ risk_level \notin DOMAIN RISK_LEVELS
          \/ ~exists(root_state)
          \/ ~is_dir(root_state)
       THEN pc' = "exited" /\ exit_status' = "1"
       ELSE pc' = "root_checked" /\ exit_status' = exit_status
    /\ UNCHANGED <<repo_root, risk_level, tree, walk, candidates, parsed_metadata,
                   parsed_logs, audit_results, evidence_dir, final_report,
                   invocation, dirs_created, output_dir, saved_reports, earlier>>

\* main, lines 956-962: the output and evidence directories
MakeDirs ==
    /\ pc = "root_checked"
    /\ dirs_created' = TRUE
    /\ pc' = "start"
    /\ UNCHANGED <<repo_root, risk_level, tree, walk, candidates, parsed_metadata,
                   parsed_logs, audit_results, evidence_dir, final_report,
                   invocation, output_dir, exit_status, saved_reports, earlier>>

\* main, lines 963-965: mkdir raised
MakeDirsRaises ==
    /\ pc = "root_checked"
    /\ exit_status' = "1"
    /\ pc' = "exited"
    /\ UNCHANGED <<repo_root, risk_level, tree, walk, candidates, parsed_metadata,
                   parsed_logs, audit_results, evidence_dir, final_report,
                   invocation, dirs_created, output_dir, saved_reports, earlier>>

\* main, lines 1007-1012: the report is written under its fixed name
SaveReport ==
    /\ entry_point = "main"
    /\ pc = "reported"
    /\ output_dir' = Put(output_dir, report_name, final_report)
    /\ saved_reports' = Append(saved_reports, final_report)
    /\ pc' = "saved"
    /\ UNCHANGED <<repo_root, risk_level, tree, walk, candidates, parsed_metadata,
                   parsed_logs, audit_results, evidence_dir, final_report,
                   invocation, dirs_created, exit_status, earlier>>

\* main, lines 1013-1015: opening the report file raised, out_json_path = None
SaveReportRaises ==
    /\ entry_point = "main"
    /\ pc = "reported"
    /\ pc' = "not_saved"
    /\ UNCHANGED <<repo_root, risk_level, tree, walk, candidates, parsed_metadata,
                   parsed_logs, audit_results, evidence_dir, final_report,
                   invocation, outputs>>

\* main, lines 1017-1053: the integrity file, the console summary, and return
SaveHash ==
    /\ pc \in {"saved", "not_saved"}
    /\ output_dir' = Put(output_dir, hash_name,
                         [report_hash |-> ReportDigest(final_report),
                          source |-> pc = "saved"])
    /\ exit_status' = "0"
    /\ pc' = "exited"
    /\ UNCHANGED <<repo_root, risk_level, tree, walk, candidates, parsed_metadata,
                   parsed_logs, audit_results, evidence_dir, final_report,
                   invocation, dirs_created, saved_reports, earlier>>

\* main, lines 1031-1053: opening the integrity file raised
SaveHashRaises ==
    /\ pc \in {"saved", "not_saved"}
    /\ exit_status' = "0"
    /\ pc' = "exited"
    /\ UNCHANGED <<repo_root, risk_level, tree, walk, candidates, parsed_metadata,
                   parsed_logs, audit_results, evidence_dir, final_report,
                   invocation, dirs_created, output_dir, saved_reports, earlier>>

\* the same tree is audited again with the same arguments: main is started
\* again after the process ended, perform_audit is called again after it returned
RunAgain ==
    /\ run < MaxRuns
    /\ \/ entry_point = "main" /\ pc = "exited" /\ pc' = "main"
       \/ entry_point = "perform_audit" /\ pc = "audited" /\ pc' = "start"
    /\ run' = run + 1
    /\ walk' \in Enumerations(tree)
    /\ earlier' = Append(earlier, [walk |-> walk, summary |-> audit_results.summary])
    /\ candidates' = [c \in Categories |-> <<>>]
    /\ parsed_metadata' = <<>>
    /\ parsed_logs' = <<>>
    /\ audit_results' = NoResults
    /\ final_report' = NoReport
    /\ exit_status' = "running"
    /\ UNCHANGED <<repo_root, risk_level, tree, evidence_dir, entry_point, root_state,
                   fault, dirs_created, output_dir, saved_reports>>

\* the trees of repeated perform_audit calls, and those of process runs
RunTrees == {t \in Trees : Cardinality(t) <= MaxRunFiles}

MainTrees == {t \in Trees : Cardinality(t) <= MaxMainFiles}

RootStates == {"dir", "file", "missing"}

InitRuns ==
    /\ entry_point \in {"main", "perform_audit"}
    /\ root_state \in RootStates
    /\ repo_root \in IF entry_point = "main" THEN {resolve(r) : r \in Roots} ELSE Roots
    /\ risk_level \in IF entry_point = "main" THEN DOMAIN RISK_LEVELS ELSE RiskLevels
    /\ tree \in IF root_state # "dir" THEN {{}}
                ELSE IF entry_point = "main" THEN MainTrees ELSE RunTrees
    /\ walk \in Enumerations(tree)
    /\ pc = IF entry_point = "main" THEN "main" ELSE "start"
    /\ candidates = [c \in Categories |-> <<>>]
    /\ parsed_metadata = <<>>
    /\ parsed_logs = <<>>
    /\ audit_results = NoResults
    /\ evidence_dir = <<>>
    /\ final_report = NoReport
    /\ fault = "none"
    /\ run = 1
    /\ dirs_created = (entry_point = "perform_audit")
    /\ output_dir = <<>>
    /\ exit_status = "running"
    /\ saved_reports = <<>>
    /\ earlier = <<>>

NextRuns ==
    \/ StartMain
    \/ MakeDirs
    \/ MakeDirsRaises
    \/ Scan
    \/ Load
    \/ CheckCrossReferences
    \/ EvaluateItems
    \/ PerformAuditRaises
    \/ GenerateReport
    \/ GenerateReportRaises
    \/ SaveReport
    \/ SaveReportRaises
    \/ SaveHash
    \/ SaveHashRaises
    \/ RunAgain

SpecRuns == InitRuns /\ [][NextRuns]_vars

-----------------------------------------------------------------------------
(* A structural check that raises *)

StructuralItems ==
    {"dataset_versioning", "model_versioning", "reproducibility_capability",
     "cross_reference", "file_integrity_hash"}

\* what can raise in a run: a structural check, the retention check, or
\* every copy into the evidence archive
Faults == StructuralItems \cup {"retention_check", "copy_evidence"}

InitFault ==
    /\ entry_point = "perform_audit"
    /\ root_state = "dir"
    /\ repo_root \in Roots
    /\ risk_level \in RiskLevels
    /\ tree \in RunTrees
    /\ walk \in WalkOrders(tree)
    /\ pc = "start"
    /\ candidates = [c \in Categories |-> <<>>]
    /\ parsed_metadata = <<>>
    /\ parsed_logs = <<>>
    /\ audit_results = NoResults
    /\ evidence_dir = <<>>
    /\ final_report = NoReport
    /\ fault \in Faults
    /\ run = 1
    /\ dirs_created = TRUE
    /\ output_dir = <<>>
    /\ exit_status = "running"
    /\ saved_reports = <<>>
    /\ earlier = <<>>

SpecFault == InitFault /\ [][Next]_vars

-----------------------------------------------------------------------------
(* Properties *)

Audited == pc = "audited"

Result(item_key) == audit_results.details[item_key]

Applies(item_key) == IsRequiredForRisk(item_key, risk_level)

\* some keyword of the item occurs, ignoring case, in the file's name or in
\* the first 8192 bytes of its content
Mentions ==
    [item_key \in ItemKeys |-> [f \in FileIds |->
        \E n \in DOMAIN TRACEABILITY_ITEMS[item_key].keywords :
            \/ Contains(lower(FS[f].name), lower(TRACEABILITY_ITEMS[item_key].keywords[n]))
            \/ Contains(lower(Prefix(FS[f].content, 8192)),
                        lower(TRACEABILITY_ITEMS[item_key].keywords[n]))]]

InIgnoredDirectory(f) == \E n \in DOMAIN FS[f].dirs : FS[f].dirs[n] \in IGNORED_DIRS

Classified == {f \in tree : \E c \in Categories : InSeq(candidates[c], f)}

FoundWith(item_key, f) ==
    /\ Result(item_key).status = "found"
    /\ InSeq(Result(item_key).evidence, RelPath(f))

\* C1 as stated: every regular file outside the ignored directories that
\* mentions a keyword of an applicable item makes the item `found` and is
\* listed in its evidence.
C1_Original ==
    Audited =>
        \A item_key \in ItemKeys : \A f \in tree :
            Applies(item_key) /\ ~InIgnoredDirectory(f) /\ Mentions[item_key][f]
                => FoundWith(item_key, f)

\* C1 (amended): every file that scan_repository classified into a category
\* and whose content sample could be read, and that mentions a keyword of an
\* applicable item, makes the item `found` and is listed in its evidence.
C1_Amended ==
    Audited =>
        \A item_key \in ItemKeys : \A f \in Classified :
            Applies(item_key) /\ FS[f].readable /\ Mentions[item_key][f]
                => FoundWith(item_key, f)

\* a file matched by its name only is evidence of an applicable item
C1_Witness ==
    /\ Audited
    /\ "settings" \in Classified
    /\ Applies("hyperparameters_config")
    /\ Mentions["hyperparameters_config"]["settings"]
    /\ FoundWith("hyperparameters_config", "settings")

\* C2: at the end of perform_audit an item with a positive score is `found`
\* and has a non-empty evidence list.
C2_ScoreImpliesEvidence ==
    Audited =>
        \A item_key \in DOMAIN audit_results.details :
            Result(item_key).score > 0
                => /\ Result(item_key).status = "found"
                   /\ Len(Result(item_key).evidence) > 0

AllFourCategories ==
    \A c \in {"training_configs", "requirements_files", "dataset_files", "model_artifacts"} :
        Len(candidates[c]) > 0

KeywordFileFor(item_key) ==
    \E f \in Classified : FS[f].readable /\ Mentions[item_key][f]

IssuesNaming(name) ==
    {j \in DOMAIN audit_results.cross_reference_issues :
        audit_results.cross_reference_issues[j].log = name}

DeclaredVersions ==
    {str(parsed_metadata[i].doc.fields["version"]) :
        i \in {j \in DOMAIN parsed_metadata :
                  /\ parsed_metadata[j].doc.kind = "dict"
                  /\ "version" \in DOMAIN parsed_metadata[j].doc.fields}}

SingleObjectLogs == {i \in DOMAIN parsed_logs : parsed_logs[i].doc.kind = "dict"}

UnknownVersion(i) ==
    /\ "model_version" \in DOMAIN parsed_logs[i].doc.fields
    /\ str(parsed_logs[i].doc.fields["model_version"]) \notin DeclaredVersions

\* C5: a single-object log whose model_version, as a string, is the version
\* of no metadata document yields exactly one issue, naming the log file and
\* the version; any other single-object log yields none.
C5_SingleObjectLogIssues ==
    pc = "cross_checked" =>
        \A i \in SingleObjectLogs :
            LET named == IssuesNaming(FS[parsed_logs[i].path].name)
            IN  IF UnknownVersion(i)
                THEN /\ Cardinality(named) = 1
                     /\ \A j \in named :
                            audit_results.cross_reference_issues[j].version
                                = str(parsed_logs[i].doc.fields["model_version"])
                ELSE named = {}

\* a numeric model_version unknown to non-empty metadata is reported once,
\* next to a numeric model_version that a string version declares
C5_Witness ==
    /\ pc = "cross_checked"
    /\ Len(parsed_metadata) > 0
    /\ \E i \in SingleObjectLogs :
          /\ UnknownVersion(i)
          /\ parsed_logs[i].doc.fields["model_version"].t = "int"
          /\ Cardinality(IssuesNaming(FS[parsed_logs[i].path].name)) = 1
    /\ \E i \in SingleObjectLogs :
          /\ "model_version" \in DOMAIN parsed_logs[i].doc.fields
          /\ parsed_logs[i].doc.fields["model_version"].t = "float"
          /\ ~UnknownVersion(i)

\* C6: metadata/info.json with version "1.0" and logs/pred.json with
\* model_version "1.0" give no cross-reference issue and cross_reference =
\* found; with model_version "2.0" the run reports exactly one issue, naming
\* pred.json and 2.0.
C6_Scenario ==
    Audited /\ Applies("cross_reference")
        => /\ tree = {"info", "pred1"}
                => /\ audit_results.cross_reference_issues = <<>>
                   /\ Result("cross_reference").status = "found"
           /\ tree = {"info", "pred2"}
                => /\ Len(audit_results.cross_reference_issues) = 1
                   /\ audit_results.cross_reference_issues[1].log = "pred.json"
                   /\ audit_results.cross_reference_issues[1].version = "2.0"

\* C7: a directory with only requirements.txt, train_config.yaml, dataset.csv
\* and model.pkl has reproducibility_capability found; without dataset.csv it
\* is not_found.
C7_Scenario ==
    Audited /\ Applies("reproducibility_capability")
        => /\ tree = {"reqs", "traincfg", "dataset", "model"}
                => Result("reproducibility_capability").status = "found"
           /\ tree = {"reqs", "traincfg", "model"}
                => Result("reproducibility_capability").status = "not_found"

RECURSIVE SumWeights(_)
SumWeights(keys) ==
    IF keys = {} THEN 0
    ELSE LET k == CHOOSE x \in keys : TRUE
         IN  TRACEABILITY_ITEMS[k].weight + SumWeights(keys \ {k})

RequiredFor(t) == {k \in ItemKeys : t \in TRACEABILITY_ITEMS[k].required_for}

\* C8: for the tiers high, limited and low, max_score is the sum of the
\* weights of the items whose required_for contains the tier, and the items
\* flagged is_required_for_risk are exactly those items.
C8_MaxScore ==
    Audited /\ risk_level \in {"high", "limited", "low"}
        => /\ audit_results.summary.max_score = SumWeights(RequiredFor(risk_level))
           /\ {k \in DOMAIN audit_results.details : Result(k).is_required_for_risk}
                = RequiredFor(risk_level)
           /\ audit_results.summary.required_items_count
                = Cardinality(RequiredFor(risk_level))

C8_Witness ==
    /\ Audited
    /\ risk_level = "limited"
    /\ audit_results.summary.max_score = 90
    /\ audit_results.summary.required_items_count = 10

Abs(x) == IF x < 0 THEN -x ELSE x

\* C9: compliance_percentage (in hundredths) is the hundredth nearest to
\* total_score / max_score * 100 when max_score > 0, and 0 when max_score
\* is 0: unknown tier, fallback results or fallback report.
C9_CompliancePercentage ==
    pc = "reported" =>
        LET s == final_report.summary
        IN  /\ s.max_score > 0
                => 2 * Abs(s.compliance_percentage * s.max_score - s.total_score * 10000)
                       <= s.max_score
            /\ s.max_score = 0 => s.compliance_percentage = 0

\* a report whose percentage had to be rounded up
C9_Witness ==
    /\ pc = "reported"
    /\ final_report.summary.max_score > 0
    /\ final_report.summary.compliance_percentage * final_report.summary.max_score
          > final_report.summary.total_score * 10000

RECURSIVE SumScores(_)
SumScores(keys) ==
    IF keys = {} THEN 0
    ELSE LET k == CHOOSE x \in keys : TRUE
         IN  Result(k).score + SumScores(keys \ {k})

\* C10: at the end of perform_audit total_score is the sum of the scores of
\* the items whose status is not `optional`.
C10_TotalScore ==
    Audited =>
        audit_results.summary.total_score
            = SumScores({k \in DOMAIN audit_results.details : Result(k).status # "optional"})

\* a run with several found items and optional ones
C10_Witness ==
    /\ Audited
    /\ Cardinality({k \in DOMAIN audit_results.details : Result(k).status = "found"}) >= 3
    /\ \E k \in DOMAIN audit_results.details : Result(k).status = "optional"
    /\ audit_results.summary.total_score > 0

NotApplicable == {k \in ItemKeys : risk_level \notin TRACEABILITY_ITEMS[k].required_for}

\* C11: at the end of perform_audit every catalog item whose required_for
\* does not contain the tier has status `optional`, score 0 and no evidence,
\* whatever the tree holds; total_score and max_score are sums over the
\* other items only.
C11_OptionalItems ==
    Audited =>
        /\ \A k \in NotApplicable :
              /\ k \in DOMAIN audit_results.details
              /\ Result(k).status = "optional"
              /\ Result(k).score = 0
              /\ Result(k).evidence = <<>>
        /\ audit_results.summary.total_score = SumScores(ItemKeys \ NotApplicable)
        /\ audit_results.summary.max_score = SumWeights(ItemKeys \ NotApplicable)

\* a classified, readable file mentions a keyword of an item that does not
\* apply to the tier, and the item stays optional without evidence
C11_Witness ==
    /\ Audited
    /\ risk_level = "low"
    /\ audit_results.summary.total_score > 0
    /\ \E k \in NotApplicable : \E f \in Classified :
          /\ FS[f].readable
          /\ Mentions[k][f]
          /\ Result(k).status = "optional"
          /\ Result(k).evidence = <<>>

\* positions of FILE_PATTERNS that match the file and have no matching
\* position before them
FirstMatch ==
    [f \in FileIds |->
        LET matches(i) == CategoryMatches(i, lower(FS[f].name), lower(suffix(FS[f].name)))
        IN  {i \in DOMAIN FILE_PATTERNS : matches(i) /\ \A j \in 1..(i - 1) : ~matches(j)}]

Occurrences(f) ==
    Cardinality({<<c, i>> \in Categories \X (1..Cardinality(FileIds)) :
                    i \in DOMAIN candidates[c] /\ candidates[c][i] = f})

\* the file is not parsed, not listed as evidence of any item, not archived
NotUsedAsEvidence(f) ==
    /\ ~InSeq(Paths(parsed_metadata), f)
    /\ ~InSeq(Paths(parsed_logs), f)
    /\ RelPath(f) \notin DOMAIN audit_results.evidence_index
    /\ \A k \in DOMAIN audit_results.details : ~InSeq(Result(k).evidence, RelPath(f))

NamedByRetentionIssue(f) ==
    \E i \in DOMAIN audit_results.retention_issues :
        audit_results.retention_issues[i].path = PathStr(repo_root, f)

FirstMatchOnly(f) ==
    /\ Occurrences(f) <= 1
    /\ \A c \in Categories :
          InSeq(candidates[c], f) => \E i \in FirstMatch[f] : FILE_PATTERNS[i].category = c

\* C12 as stated: a file is in at most one category list, the first one in
\* FILE_PATTERNS order with a matching pattern, and a file that matches no
\* pattern is in no list and nothing in the run looks at it any further.
C12_Original ==
    \A f \in tree :
        /\ FirstMatchOnly(f)
        /\ FirstMatch[f] = {}
              => f \notin Classified /\ NotUsedAsEvidence(f) /\ ~NamedByRetentionIssue(f)

\* C12 (amended): a file is in at most one category list, the first one in
\* FILE_PATTERNS order with a matching pattern, and a file that matches no
\* pattern is in no list, is not parsed, and is neither listed as evidence
\* of an item nor archived.
C12_Amended ==
    \A f \in tree :
        /\ FirstMatchOnly(f)
        /\ FirstMatch[f] = {} => f \notin Classified /\ NotUsedAsEvidence(f)

\* a file that three categories match is listed under the first of them,
\* next to a file that no pattern matches and the retention check reports
C12_Witness ==
    /\ Audited
    /\ InSeq(candidates["dataset_files"], "traincfg")
    /\ Occurrences("traincfg") = 1
    /\ "backup" \in tree
    /\ FirstMatch["backup"] = {}
    /\ NamedByRetentionIssue("backup")

\* C13: a regular file under the root is considered for classification, and
\* so listed under the category its name matches, if and only if no directory
\* name between the root and the file is in IGNORED_DIRS, wherever the root is.
C13_IgnoredDirectoriesOnly ==
    pc \in {"scanned", "loaded", "cross_checked", "audited"} =>
        \A f \in tree :
            FirstMatch[f] # {} => (f \in Classified <=> ~InIgnoredDirectory(f))

\* the names copy_evidence returned in the run: the values of evidence_index
ReturnedNames(res) == {res.evidence_index[p] : p \in DOMAIN res.evidence_index}

ArchivedAs(dir, old) == {"evidence/" \o n : n \in (DOMAIN dir) \ (DOMAIN old)}

\* C14: the copy_evidence calls of a run, made into an evidence directory
\* that may hold the copies of an earlier run of the same files, return
\* pairwise different names, none of them present before the run, and every
\* entry present before is still there with its content.
C14_CopiesNeverCollide ==
    [][/\ \A n \in DOMAIN evidence_dir :
             n \in DOMAIN evidence_dir' /\ evidence_dir'[n] = evidence_dir[n]
       /\ pc = "cross_checked" =>
             /\ ReturnedNames(audit_results') = ArchivedAs(evidence_dir', evidence_dir)
             /\ Cardinality(ReturnedNames(audit_results'))
                   = Cardinality(DOMAIN audit_results'.evidence_index)]_vars

\* the second run archived a file again, under a name with a numeric suffix
C14_Witness ==
    /\ run = 2
    /\ Audited
    /\ \E p \in DOMAIN audit_results.evidence_index :
          Contains(audit_results.evidence_index[p], "__1__")
    /\ Cardinality(DOMAIN evidence_dir) = 2 * Cardinality(DOMAIN audit_results.evidence_index)

\* C15: every report a run has written to the output directory is still
\* there, under some name, with the content it was written with.
C15_EarlierReportsKept ==
    \A i \in DOMAIN saved_reports :
        \E n \in (DOMAIN output_dir) \ {hash_name} : output_dir[n] = saved_reports[i]

ReportBuildingRaised == final_report.audit_run.environment_info = "Python fallback"

ReportOfThisRunSaved ==
    report_name \in DOMAIN output_dir /\ output_dir[report_name] = final_report

HashOfThisRunSaved ==
    /\ hash_name \in DOMAIN output_dir
    /\ output_dir[hash_name].report_hash = ReportDigest(final_report)

\* C16: a run of main in which building the report raised or the report
\* file could not be written ends with a non-zero exit status and leaves a
\* report or an integrity file of that run in the output directory.
C16_FailureLeavesArtifactAndExit ==
    /\ entry_point = "main"
    /\ pc = "exited"
    /\ final_report # NoReport
    /\ ReportBuildingRaised \/ ~ReportOfThisRunSaved
    => /\ exit_status # "0"
       /\ ReportOfThisRunSaved \/ HashOfThisRunSaved

\* C17: when the structural check of an applicable item raises, the error
\* is among the item's check narratives and the item's status is `error`.
C17_RaisingCheckMarkedError ==
    /\ Audited
    /\ fault \in StructuralItems
    /\ risk_level \in TRACEABILITY_ITEMS[fault].required_for
    => /\ InSeq(Result(fault).checks, Narrative("specific_validation_error", ""))
       /\ Result(fault).status = "error"

\* C18: when the root is missing or is not a directory, main ends with exit
\* status 1 without having created the output and evidence directories,
\* scanned, or written a report or an integrity file; a direct call of
\* perform_audit on such a root gets an empty classification from the scan.
C18_UnusableRoot ==
    /\ entry_point = "main" /\ root_state # "dir" /\ pc # "main"
        => /\ pc = "exited"
           /\ exit_status = "1"
           /\ ~dirs_created
           /\ output_dir = <<>>
           /\ evidence_dir = <<>>
           /\ audit_results = NoResults
           /\ final_report = NoReport
    /\ entry_point = "perform_audit" /\ root_state # "dir" /\ pc # "start"
        => \A c \in Categories : candidates[c] = <<>>

\* main was started a second time on a root that is a regular file
C18_Witness ==
    /\ entry_point = "main"
    /\ root_state = "file"
    /\ run = 2
    /\ pc = "exited"
    /\ exit_status = "1"

\* C19: a call of perform_audit on the tree and tier of an earlier call
\* returns the total_score and max_score of the earlier call, whatever the
\* order of the directory walk and whatever the earlier call left in the
\* evidence directory.
C19_ScoresRepeat ==
    entry_point = "perform_audit" /\ Audited =>
        \A i \in DOMAIN earlier :
            /\ earlier[i].summary.total_score = audit_results.summary.total_score
            /\ earlier[i].summary.max_score = audit_results.summary.max_score

\* the second call walked the files in another order and archived its
\* evidence next to the copies of the first call
C19_Witness ==
    /\ entry_point = "perform_audit"
    /\ Audited
    /\ run = 2
    /\ earlier[1].walk # walk
    /\ audit_results.summary.total_score > 0
    /\ Cardinality(DOMAIN audit_results.evidence_index) = 2
    /\ Cardinality(DOMAIN evidence_dir) = 4

\* C20: for an empty directory and tier `low`, perform_audit reports
\* scanned_files = 0 and status `not_found` for every item required for
\* `low`, and the report's compliance_percentage is 0.0.
C20_EmptyDirectoryLow ==
    risk_level = "low" /\ tree = {} =>
        /\ Audited =>
              /\ audit_results.summary.scanned_files = 0
              /\ \A k \in RequiredFor("low") :
                    k \in DOMAIN audit_results.details /\ Result(k).status = "not_found"
        /\ pc = "reported" =>
              /\ final_report.summary.scanned_files = 0
              /\ final_report.summary.compliance_percentage = 0

\* the report of the empty directory: five items, none found, 0 of 46
C20_Witness ==
    /\ pc = "reported"
    /\ risk_level = "low"
    /\ tree = {}
    /\ final_report.summary.max_score = 46
    /\ final_report.summary.compliance_percentage = 0
    /\ Cardinality(RequiredFor("low")) = 5
    /\ \A k \in RequiredFor("low") :
          k \in DOMAIN final_report.details /\ final_report.details[k].en.status = "not_found"

\* the digest of the file's content is the dataset_hash or model_hash value
\* of some parsed metadata document
DigestRecorded(f) ==
    /\ FS[f].readable
    /\ \E i \in DOMAIN parsed_metadata : \E key \in {"dataset_hash", "model_hash"} :
          /\ parsed_metadata[i].doc.kind = "dict"
          /\ key \in DOMAIN parsed_metadata[i].doc.fields
          /\ parsed_metadata[i].doc.fields[key] = StrV(Sha256Hex(FS[f].content))

DataAndModelFiles ==
    {f \in tree : InSeq(candidates["dataset_files"], f) \/ InSeq(candidates["model_artifacts"], f)}

C22_HashMatchesReport ==
    pc = "exited" /\ {report_name, hash_name} \subseteq DOMAIN output_dir
        => /\ output_dir[hash_name].report_hash = ReportDigest(output_dir[report_name])
           /\ output_dir[hash_name].source

\* status and score of every item, and the totals
Scores(res) ==
    [items |-> [k \in DOMAIN res.details |->
                    [status |-> res.details[k].status, score |-> res.details[k].score]],
     total_score |-> res.summary.total_score,
     max_score |-> res.summary.max_score,
     compliance_percentage |->
        compliance_percentage(res.summary.total_score, res.summary.max_score)]

\* the evaluation of the catalog, had the retention check ended with `outcome`
EvaluatedWithRetention(outcome) ==
    EvaluateAll([res |-> [audit_results EXCEPT !.retention_issues = outcome],
                 dir |-> evidence_dir],
                1, repo_root, candidates, parsed_metadata, parsed_logs, risk_level, fault)

\* C23: the evaluation of the catalog gives every item the status and score,
\* and the run the total_score, max_score and compliance percentage, that it
\* gives when the retention check reports nothing and when it fails.
C23_RetentionIsAdvisory ==
    [][pc = "cross_checked" =>
          \A outcome \in {<<>>, RetentionFailure} :
              Scores(EvaluatedWithRetention(outcome).res) = Scores(audit_results')]_vars

\* a run whose retention check failed and that scored nevertheless
C23_Witness ==
    /\ Audited
    /\ fault = "retention_check"
    /\ audit_results.retention_issues = RetentionFailure
    /\ audit_results.summary.total_score > 0

Listed(t) == {RequiredItems(t)[i] : i \in DOMAIN RequiredItems(t)}

\* the tiers below a tier
Below(t) ==
    IF t = "high" THEN {"limited", "low"} ELSE IF t = "limited" THEN {"low"} ELSE {}

\* C24: whatever the tier of the run, every item required for a tier below
\* it is required for it (low within limited, limited within high), in the
\* RISK_LEVELS lists and in the required_for sets of the items.
C24_TiersNested ==
    \A t \in Below(risk_level) :
        /\ Listed(t) \subseteq Listed(risk_level)
        /\ RequiredFor(t) \subseteq RequiredFor(risk_level)

\* a run at tier `limited`: an item required from `limited` upwards was
\* evaluated and found, the items required for `high` only stayed optional
C24_Witness ==
    /\ Audited
    /\ risk_level = "limited"
    /\ \E k \in Listed("limited") \ Listed("low") : Result(k).status = "found"
    /\ \A k \in Listed("high") \ Listed("limited") : Result(k).status = "optional"
    /\ \A k \in Listed("low") : Result(k).status # "optional"

ListLogs == {i \in DOMAIN parsed_logs : parsed_logs[i].doc.kind = "list"}

\* positions of the entries of list log i whose model_version is declared
\* by no metadata document
OffendingEntries(i) ==
    {e \in DOMAIN parsed_logs[i].doc.entries :
        /\ HasKey(parsed_logs[i].doc.entries[e], "model_version")
        /\ str(parsed_logs[i].doc.entries[e].fields["model_version"]) \notin DeclaredVersions}

\* C25: a list-shaped log yields one issue for every entry whose
\* model_version is among no metadata versions: as many issues naming the
\* file as it has such entries, each unknown version being named.
C25_IssuePerListEntry ==
    pc = "cross_checked" =>
        \A i \in ListLogs :
            LET named == IssuesNaming(FS[parsed_logs[i].path].name)
            IN  /\ Cardinality(named) = Cardinality(OffendingEntries(i))
                /\ \A e \in OffendingEntries(i) : \E j \in named :
                      audit_results.cross_reference_issues[j].version
                          = str(parsed_logs[i].doc.entries[e].fields["model_version"])

\* C26: at the end of perform_audit every path in an item's evidence list
\* is a key of evidence_index, and no evidence list holds a path twice.
C26_EvidenceIsArchived ==
    Audited =>
        \A k \in DOMAIN audit_results.details :
            /\ \A i \in DOMAIN Result(k).evidence :
                  Result(k).evidence[i] \in DOMAIN audit_results.evidence_index
            /\ \A i, j \in DOMAIN Result(k).evidence :
                  i # j => Result(k).evidence[i] # Result(k).evidence[j]

\* the evaluation of the catalog in which every copy succeeds
EvaluatedWithCopies ==
    EvaluateAll([res |-> audit_results, dir |-> evidence_dir],
                1, repo_root, candidates, parsed_metadata, parsed_logs, risk_level, "none")

\* C27: when the copies into the archive fail, copy_evidence returns an
\* error string, the evaluation ends normally, evidence_index has no entry
\* and the archive is as before, and every item's status and score and the
\* total_score are those of the evaluation in which the copies succeed; a
\* source that cannot be read never gets an entry of evidence_index.
C27_CopyFailureIsHarmless ==
    [][pc = "cross_checked" =>
          /\ pc' = "audited"
          /\ \A f \in tree :
                ~FS[f].readable => RelPath(f) \notin DOMAIN audit_results'.evidence_index
          /\ fault = "copy_evidence" =>
                /\ \A f \in tree : startswith(copy_evidence(f, evidence_dir, fault).result, "error")
                /\ audit_results'.evidence_index = <<>>
                /\ evidence_dir' = evidence_dir
                /\ Scores(audit_results') = Scores(EvaluatedWithCopies.res)]_vars

\* no copy could be made, and the run found evidence and scored
C27_Witness ==
    /\ Audited
    /\ fault = "copy_evidence"
    /\ audit_results.evidence_index = <<>>
    /\ evidence_dir = <<>>
    /\ audit_results.summary.total_score > 0
    /\ \E k \in DOMAIN audit_results.details : Len(Result(k).evidence) > 0

\* the report carries the per-item results and the total of the audit pass
CarriesResults(report) ==
    /\ DOMAIN report.details = DOMAIN audit_results.details
    /\ \A k \in DOMAIN audit_results.details :
          /\ report.details[k].en.status = Result(k).status
          /\ report.details[k].en.score = Result(k).score
    /\ report.summary.total_score = audit_results.summary.total_score

\* C28: when perform_audit completed with per-item results, the run of main
\* ends with a report of that run in the output directory that carries
\* those per-item results and the computed total_score, also when building
\* the report raised or the report file could not be written.
C28_ResultsSurviveLaterFailure ==
    /\ entry_point = "main"
    /\ pc = "exited"
    /\ DOMAIN audit_results.details # {}
    => /\ ReportOfThisRunSaved
       /\ CarriesResults(output_dir[report_name])

\* C29: in a tier where dataset_versioning applies, a tree holding a file
\* with the .dvc extension has dataset_versioning `found`.
C29_DvcMarkerSatisfiesVersioning ==
    /\ Audited
    /\ Applies("dataset_versioning")
    /\ \E f \in tree : suffix(FS[f].name) = ".dvc" /\ ~Ignored(repo_root, f)
    => Result("dataset_versioning").status = "found"

\* C30: at the end of perform_audit, for every tree and every tier, a tier
\* outside the table included, 0 <= total_score <= max_score; the reported
\* compliance percentage (in hundredths) lies between 0 and 10000.
C30_ScoreWithinBounds ==
    /\ Audited =>
          /\ 0 <= audit_results.summary.total_score
          /\ audit_results.summary.total_score <= audit_results.summary.max_score
    /\ pc = "reported" =>
          /\ 0 <= final_report.summary.compliance_percentage
          /\ final_report.summary.compliance_percentage <= 10000

\* a run that scored something short of the maximum, and was reported
C30_Witness ==
    /\ pc = "reported"
    /\ ~ReportBuildingRaised
    /\ final_report.summary.total_score > 0
    /\ final_report.summary.total_score < final_report.summary.max_score
    /\ final_report.summary.compliance_percentage > 0

====
